---- MODULE Spec2Model ----
(***************************************************************************)
(* Incremental asset-compilation tasks of the Filament Android samples     *)
(* build script (MaterialCompiler, IblGenerator, MeshCompiler).            *)
(*                                                                         *)
(* File names are sequences of one-character strings, so that the Groovy   *)
(* string operations of getOutputFile (lastIndexOf, range subscript,       *)
(* concatenation) are computed and not assumed.                            *)
(***************************************************************************)
EXTENDS Integers, Sequences, FiniteSets, TLC

\* ------------------------------------------------------------------ bounds

\* At most this many files are in the input directory at the same time.
MaxInputs == 2

\* ------------------------------------------------------------- file names

Kinds == {"material", "ibl", "mesh"}

\* Input file names the environment may create: two names that differ only
\* in their extension, a third base name, and a name without any '.'.
NameSet ==
    { <<"a", ".", "m">>, <<"a", ".", "t">>, <<"b", ".", "m">>, <<"c">> }

\* Result of a Groovy expression that throws (StringIndexOutOfBounds).
Error == <<"#error">>

Max(S) == CHOOSE x \in S : \A y \in S : y <= x

Reverse(s) == [i \in 1..Len(s) |-> s[Len(s) + 1 - i]]

\* java.lang.String.lastIndexOf(ch): 0-based index of the last ch, -1 if none.
lastIndexOf(s, ch) ==
    LET I == {i \in 1..Len(s) : s[i] = ch}
    IN  IF I = {} THEN -1 ELSE Max(I) - 1

\* Groovy s[from..to] on a String with an inclusive integer range: negative
\* ends count from the end of the string, a descending range selects the
\* characters in between and reverses them, and an end that is still
\* outside the string after that makes substring() throw.
getAt(s, from, to) ==
    LET size == Len(s)
        tf   == IF from < 0 THEN from + size ELSE from
        tt   == IF to < 0 THEN to + size ELSE to
        rev  == tf > tt
        lo   == IF rev THEN tt ELSE tf
        hi   == IF rev THEN tf + 1 ELSE tt + 1
    IN  IF lo < 0 \/ hi > size \/ lo > hi THEN Error
        ELSE IF rev THEN Reverse(SubSeq(s, lo + 1, hi))
        ELSE SubSeq(s, lo + 1, hi)

filamat == <<"f", "i", "l", "a", "m", "a", "t">>
filamesh == <<"f", "i", "l", "a", "m", "e", "s", "h">>

\* new File(outputDir, s + suffix): the path below outputDir, or the
\* exception thrown while computing s.
Plus(s, suffix) == IF s = Error THEN Error ELSE s \o suffix

\* MaterialCompiler.getOutputFile
MaterialCompiler_getOutputFile(name) ==
    Plus(getAt(name, 0, lastIndexOf(name, ".")), filamat)

\* IblGenerator.getOutputFile
IblGenerator_getOutputFile(name) ==
    getAt(name, 0, lastIndexOf(name, ".") - 1)

\* MeshCompiler.getOutputFile
MeshCompiler_getOutputFile(name) ==
    Plus(getAt(name, 0, lastIndexOf(name, ".")), filamesh)

getOutputFile(k, name) ==
    CASE k = "material" -> MaterialCompiler_getOutputFile(name)
      [] k = "ibl"      -> IblGenerator_getOutputFile(name)
      [] k = "mesh"     -> MeshCompiler_getOutputFile(name)

EndsWith(s, suffix) ==
    /\ Len(s) >= Len(suffix)
    /\ SubSeq(s, Len(s) - Len(suffix) + 1, Len(s)) = suffix

\* The include pattern of the clean of a non-incremental run, applied to the
\* name of a regular file directly in outputDir ('*' never crosses a '/').
MatchesPattern(k, path) ==
    CASE k = "material" -> EndsWith(path, <<".">> \o filamat)
      [] k = "ibl"      -> TRUE
      [] k = "mesh"     -> EndsWith(path, <<".">> \o filamesh)

\* ------------------------------------------------------- external tools

\* matc and filamesh write exactly the output path they are given.
\* cmgen -x <dir> <file> and cmgen --extract=<dir> <file> write their
\* artifacts into <dir>/<name of the file without its extension>.
cmgenDir(name) ==
    LET idx == lastIndexOf(name, ".")
    IN  IF idx < 0 THEN name ELSE SubSeq(name, 1, idx)

\* The files of outputDir after matc or filamesh wrote output path out.
toolWrites(files, out) == files \cup {out}

\* The directories below outputDir after the first and after the second
\* cmgen invocation for input file name.
cmgenExtracts(dirs, name) == dirs \cup {<<cmgenDir(name), "x">>}

cmgenBlurs(dirs, name) == dirs \cup {<<cmgenDir(name), "blur">>}

\* ------------------------------------------------------------------ state

VARIABLES
    kind,          \* which of the three task classes this task instance is
    isWindows,     \* OperatingSystem.current().isWindows()
    bins,          \* indexes into getBinaries' list whose file exists
    inputs,        \* input files on disk: name -> fingerprint, 0 = absent
    history,       \* the build host holds a usable record of the last run
    snapshot,      \* that record: name -> fingerprint, 0 = absent
    outFiles,      \* names of the regular files directly in outputDir
    outDirs,       \* <<directory, artifact>> pairs below outputDir
    pc,            \* "idle", or "running" inside execute()
    incremental,   \* inputs.incremental of the current / last run
    runInputs,     \* the inputs as the host enumerated them for the run
    prevSnapshot,  \* the snapshot the run started from
    outAtStart,    \* outFiles when the run started
    dirsAtStart,   \* outDirs when the run started
    todo,          \* out-of-date inputs the outOfDate closure has not seen
    todoRemoved,   \* removed inputs the removed closure has not seen
    log,           \* what the run did, in order
    failed,        \* inputs whose processing threw in the run
    outcome,       \* "none", "running", "success", "failed", "config_failed"
    repeatOf,      \* outcome of the run just before this one when no file
                   \* changed in between, else "none"
    repeatFailed,  \* the inputs that failed in that run
    repeatDone,    \* the inputs the tool processed successfully in that run
    calls,         \* calls of getOutputFile made on their own: what was
                   \* asked and what came back
    buf,           \* the buffer of each LogOutputStream of a closure call
    sink,          \* what the logger received, in order: level and text
    written,       \* every byte written to each stream so far
    flushing       \* for each stream and caller: where the caller is in
                   \* flush(), and the text toString() returned to it

vars == <<kind, isWindows, bins, inputs, history, snapshot, outFiles, outDirs,
          pc, incremental, runInputs, prevSnapshot, outAtStart, todo,
          todoRemoved, log, failed, outcome, repeatOf, repeatFailed,
          repeatDone, dirsAtStart, calls, buf, sink, written, flushing>>

\* The mapper calls and the streams that are studied on their own.
unitVars == <<calls, buf, sink, written, flushing>>
\* What no step of a task run changes.
envVars == <<kind, isWindows, bins, unitVars>>
runVars == <<pc, incremental, runInputs, prevSnapshot, outAtStart, todo,
             todoRemoved, log, failed, outcome, repeatOf, repeatFailed,
             repeatDone, dirsAtStart>>
\* What a run leaves alone once it has started.
startVars == <<incremental, runInputs, prevSnapshot, outAtStart, repeatOf,
               repeatFailed, repeatDone, dirsAtStart>>

\* Fingerprints of an input file; the host only compares them for equality,
\* so two values give every case: unchanged, changed, changed back.
\* 0 stands for "no such file".
Fingerprints == {1, 2}

NoFiles == [n \in NameSet |-> 0]

Present(fs) == {n \in NameSet : fs[n] # 0}

\* Files a previous, unrelated configuration left in outputDir.
StaleFiles == { <<"z", ".">> \o filamat, <<"z", ".">> \o filamesh, <<"n">> }
StaleDirs == { <<<<"z">>, "x">> }

Event(e, f, a, p, ok) == [ev |-> e, file |-> f, arg |-> a, path |-> p, ok |-> ok]

\* The two streams a closure call creates: out for the standard output of
\* the tool, err for its standard error.
Streams == {"out", "err"}

\* The caller of the stream is not inside flush().
\* The callers a stream can have at a time: the thread of the closure, which
\* writes the header and flushes (lines 92-93), and the thread project.exec
\* forwards a stream of the process with (lines 96-97).
MaxThreads == 2

Threads == 1..MaxThreads

\* The caller is not inside flush() of the stream.
NotFlushing == [at |-> "idle", text |-> <<>>]

\* A task that has just been constructed: the tools directory holds the
\* binary built for one OS or none, the host has no record of the task, and
\* outputDir holds what an earlier configuration left there.
Init ==
    /\ kind \in Kinds
    /\ isWindows \in BOOLEAN
    /\ bins \in {{}, {0}, {1}}
    /\ IF kind = "material"
       THEN inputs = NoFiles
       ELSE \E n \in NameSet : inputs = [NoFiles EXCEPT ![n] = 1]
    /\ history = FALSE
    /\ snapshot = NoFiles
    /\ outFiles = StaleFiles
    /\ outDirs = StaleDirs
    /\ pc = "idle"
    /\ incremental = FALSE
    /\ runInputs = NoFiles
    /\ prevSnapshot = NoFiles
    /\ outAtStart = {}
    /\ dirsAtStart = {}
    /\ todo = {}
    /\ todoRemoved = {}
    /\ log = <<>>
    /\ failed = {}
    /\ outcome = "none"
    /\ repeatOf = "none"
    /\ repeatFailed = {}
    /\ repeatDone = {}
    /\ calls = <<>>
    /\ buf = [s \in Streams |-> <<>>]
    /\ sink = <<>>
    /\ written = [s \in Streams |-> <<>>]
    /\ flushing = [s \in Streams |-> [t \in Threads |-> NotFlushing]]

\* ------------------------------------------------- the input files change

\* The report of the last run describes the files as they were: it is
\* dropped when they change.
ForgetRun ==
    /\ pc' = "idle"
    /\ incremental' = FALSE
    /\ runInputs' = NoFiles
    /\ prevSnapshot' = NoFiles
    /\ outAtStart' = {}
    /\ dirsAtStart' = {}
    /\ todo' = {}
    /\ todoRemoved' = {}
    /\ log' = <<>>
    /\ failed' = {}
    /\ outcome' = "none"
    /\ repeatOf' = "none"
    /\ repeatFailed' = {}
    /\ repeatDone' = {}

\* MaterialCompiler: a file is added to inputDir or its content changes.
EditInput(n, fp) ==
    /\ pc = "idle"
    /\ kind = "material"
    /\ inputs[n] # fp
    /\ Cardinality(Present(inputs) \cup {n}) <= MaxInputs
    /\ inputs' = [inputs EXCEPT ![n] = fp]
    /\ ForgetRun
    /\ UNCHANGED <<envVars, history, snapshot, outFiles, outDirs>>

\* MaterialCompiler: a file is deleted from inputDir.
RemoveInput(n) ==
    /\ pc = "idle"
    /\ kind = "material"
    /\ inputs[n] # 0
    /\ inputs' = [inputs EXCEPT ![n] = 0]
    /\ ForgetRun
    /\ UNCHANGED <<envVars, history, snapshot, outFiles, outDirs>>

\* IblGenerator, MeshCompiler: inputFile is one file; it is edited, or the
\* property is pointed at another file.
SetInputFile(n, fp) ==
    /\ pc = "idle"
    /\ kind # "material"
    /\ inputs[n] # fp
    /\ inputs' = [NoFiles EXCEPT ![n] = fp]
    /\ ForgetRun
    /\ UNCHANGED <<envVars, history, snapshot, outFiles, outDirs>>

\* ------------------------------------------------------------ the build

\* getBinaries throws when neither <name>.exe nor <name> exists.
getBinariesThrows == bins = {}

\* The constructors' choice among the two paths getBinaries returned.
toolPath == IF isWindows THEN 0 ELSE 1

toolExists == toolPath \in bins

\* Faulty variant of outOfDate: unchanged inputs are handed to the closure too.
outOfDateAll(ins, snap, incr) == Present(ins)

\* IncrementalTaskInputs.outOfDate: every input of a non-incremental run,
\* the added and the modified inputs of an incremental one.
outOfDate(ins, snap, incr) ==
    IF incr THEN {n \in Present(ins) : snap[n] # ins[n]} ELSE Present(ins)

\* IncrementalTaskInputs.removed: nothing in a non-incremental run.
removed(ins, snap, incr) ==
    IF incr THEN Present(snap) \ Present(ins) ELSE {}

\* project.delete(project.fileTree(outputDir).matching { include ... })
clean(k, files) == {p \in files : ~MatchesPattern(k, p)}

\* The inputs of a run for which every exec of the tool succeeded.
Done(l) ==
    {f \in NameSet :
        /\ \E i \in 1..Len(l) : l[i].ev = "exec" /\ l[i].file = f
        /\ \A i \in 1..Len(l) : l[i].ev = "exec" /\ l[i].file = f => l[i].ok}

\* The script fails while it is evaluated: no task of the build runs.
ConfigurationFails ==
    /\ pc = "idle"
    /\ getBinariesThrows
    /\ outcome' = "config_failed"
    /\ log' = <<>>
    /\ failed' = {}
    /\ repeatOf' = "none"
    /\ repeatFailed' = {}
    /\ repeatDone' = {}
    /\ UNCHANGED <<envVars, inputs, history, snapshot, outFiles, outDirs, pc,
                   incremental, runInputs, prevSnapshot, outAtStart,
                   dirsAtStart, todo, todoRemoved>>

\* execute() up to the first closure call.
BeginExecute ==
    /\ pc = "idle"
    /\ ~getBinariesThrows
    /\ pc' = "running"
    /\ incremental' = history
    /\ runInputs' = inputs
    /\ prevSnapshot' = snapshot
    /\ outAtStart' = outFiles
    /\ dirsAtStart' = outDirs
    /\ outFiles' = IF history THEN outFiles ELSE clean(kind, outFiles)
    /\ log' = IF history THEN <<>> ELSE <<Event("clean", <<>>, "", <<>>, TRUE)>>
    /\ todo' = outOfDate(inputs, snapshot, history)
    /\ todoRemoved' = removed(inputs, snapshot, history)
    /\ failed' = {}
    /\ outcome' = "running"
    /\ repeatOf' = outcome
    /\ repeatFailed' = failed
    /\ repeatDone' = Done(log)
    /\ UNCHANGED <<envVars, inputs, history, snapshot, outDirs>>

\* project.exec: the process runs when the executable exists; exec throws
\* when it cannot be started or when it exits non-zero.
execSucceeds(exit) == toolExists /\ exit = 0

\* The closure returned: the host passes the next file to it.
NextFile(f) ==
    /\ todo' = todo \ {f}
    /\ todoRemoved' = todoRemoved \ {f}
    /\ UNCHANGED <<pc, outcome, failed, history, snapshot>>

\* Faulty variant of RecordFailure: the exception is swallowed and the run
\* goes on.
RecordFailureAndContinue(f) == NextFile(f)

\* What the build host keeps of its record when the task action threw. The
\* host is not part of the script and its versions differ: either no usable
\* record is left, so that the next run is not incremental, or the record
\* of the last run that succeeded is kept, which the host can use for an
\* incremental run only while the output directory is as that run left it
\* (the failing step itself writes and deletes nothing). A failed run is
\* never recorded, in part or in whole.
HostAfterFailure ==
    \/ history' = FALSE /\ snapshot' = NoFiles
    \/ /\ outFiles = outAtStart
       /\ outDirs = dirsAtStart
       /\ UNCHANGED <<history, snapshot>>

\* An exception leaves execute() while it is at file f: nothing in the
\* script catches it, the task run ends there and is reported as failed.
RecordFailure(f) ==
    /\ pc' = "idle"
    /\ outcome' = "failed"
    /\ failed' = {f}
    /\ todo' = todo \ {f}
    /\ todoRemoved' = todoRemoved \ {f}
    /\ HostAfterFailure

\* The outOfDate closure of MaterialCompiler and of MeshCompiler for file f:
\* the header, then one exec of the tool with getOutputFile(f) as output.
compile(k, f, args, exit) ==
    LET out    == getOutputFile(k, f)
        header == <<Event("header", f, "", <<>>, TRUE)>>
        map    == <<Event("map", f, "", out, out # Error)>>
        run    == <<Event("exec", f, args, out, execSucceeds(exit))>>
    IN  /\ pc = "running"
        /\ kind = k
        /\ f \in todo
        /\ UNCHANGED <<outDirs>>
        /\ IF out = Error
           THEN /\ log' = log \o header \o map
                /\ UNCHANGED outFiles
                /\ RecordFailure(f)
           ELSE /\ log' = log \o header \o map \o run
                /\ IF execSucceeds(exit)
                   THEN outFiles' = toolWrites(outFiles, out) /\ NextFile(f)
                   ELSE UNCHANGED outFiles /\ RecordFailure(f)

MaterialOutOfDate(f, exit) ==
    /\ compile("material", f, "-O -p mobile -o", exit)
    /\ UNCHANGED <<envVars, inputs, startVars>>

MeshOutOfDate(f, exit) ==
    /\ compile("mesh", f, "", exit)
    /\ UNCHANGED <<envVars, inputs, startVars>>

\* The arguments that tell the two invocations of cmgen apart.
extractArgs == "-x"

blurArgs == "--format=rgbm --extract-blur=0.08 --extract"

\* The outOfDate closure of IblGenerator is between its two execs for file
\* f: the first has returned normally, the second has not returned yet.
BetweenExecs(f) ==
    /\ kind = "ibl"
    /\ pc = "running"
    /\ f \in todo
    /\ log # <<>>
    /\ log[Len(log)] = Event("exec", f, extractArgs, <<>>, TRUE)

\* The outOfDate closure of IblGenerator for file f, up to the return of
\* the first exec of cmgen: the header, then the exec with '-x'.
IblExtract(f, exit) ==
    LET header == <<Event("header", f, "", <<>>, TRUE)>>
        first  == <<Event("exec", f, extractArgs, <<>>, execSucceeds(exit))>>
    IN  /\ pc = "running"
        /\ kind = "ibl"
        /\ f \in todo
        /\ ~BetweenExecs(f)
        /\ UNCHANGED <<envVars, inputs, startVars, outFiles>>
        /\ log' = log \o header \o first
        /\ IF execSucceeds(exit)
           THEN /\ outDirs' = cmgenExtracts(outDirs, f)
                /\ UNCHANGED <<pc, outcome, failed, history, snapshot, todo,
                               todoRemoved>>
           ELSE /\ UNCHANGED outDirs
                /\ RecordFailure(f)

\* Faulty variant of IblBlur: the closure returns without the second exec.
IblBlurSkipped(f, exit) ==
    /\ BetweenExecs(f)
    /\ UNCHANGED <<envVars, inputs, startVars, outFiles, outDirs, log>>
    /\ NextFile(f)

\* The rest of the closure: the second exec of cmgen, which is reached only
\* when the first did not throw, and the return of the closure.
IblBlur(f, exit) ==
    /\ BetweenExecs(f)
    /\ UNCHANGED <<envVars, inputs, startVars, outFiles>>
    /\ log' = Append(log, Event("exec", f, blurArgs, <<>>, execSucceeds(exit)))
    /\ IF execSucceeds(exit)
       THEN /\ outDirs' = cmgenBlurs(outDirs, f)
            /\ NextFile(f)
       ELSE /\ UNCHANGED outDirs
            /\ RecordFailure(f)

\* java.io.File.delete(): removes a regular file; a directory that is not
\* empty is left alone and false is returned, as for a path that is absent.
fileDelete(path, files) == files \ {path}

fileDeleteResult(path, files) == path \in files

\* The removed closure (the same in the three classes) for file f; the host
\* calls it after the outOfDate closure has seen every out-of-date file.
Removed(f) ==
    LET out == getOutputFile(kind, f)
        map == <<Event("map", f, "", out, out # Error)>>
    IN  /\ pc = "running"
        /\ todo = {}
        /\ f \in todoRemoved
        /\ UNCHANGED <<envVars, inputs, startVars, outDirs>>
        /\ IF out = Error
           THEN /\ log' = log \o map
                /\ UNCHANGED outFiles
                /\ RecordFailure(f)
           ELSE /\ log' = log \o map \o
                      <<Event("delete", f, "", out, fileDeleteResult(out, outFiles))>>
                /\ outFiles' = fileDelete(out, outFiles)
                /\ NextFile(f)

\* Faulty variant of newSnapshot: no file is recorded.
newSnapshotEmpty(ins) == NoFiles

\* What the host records after a task action that returned normally.
newSnapshot(ins) == ins

\* execute() returns: the host records the inputs of the run.
EndExecute ==
    /\ pc = "running"
    /\ todo = {}
    /\ todoRemoved = {}
    /\ pc' = "idle"
    /\ outcome' = "success"
    /\ history' = TRUE
    /\ snapshot' = newSnapshot(runInputs)
    /\ UNCHANGED <<envVars, inputs, outFiles, outDirs, startVars, todo,
                   todoRemoved, log, failed>>

ExitCodes == {0, 1}

Next ==
    \/ \E n \in NameSet, fp \in Fingerprints : EditInput(n, fp)
    \/ \E n \in NameSet : RemoveInput(n)
    \/ \E n \in NameSet, fp \in Fingerprints : SetInputFile(n, fp)
    \/ ConfigurationFails
    \/ BeginExecute
    \/ \E f \in NameSet, exit \in ExitCodes : MaterialOutOfDate(f, exit)
    \/ \E f \in NameSet, exit \in ExitCodes : MeshOutOfDate(f, exit)
    \/ \E f \in NameSet, exit \in ExitCodes : IblExtract(f, exit)
    \/ \E f \in NameSet, exit \in ExitCodes : IblBlur(f, exit)
    \/ \E f \in NameSet : Removed(f)
    \/ EndExecute

Spec == Init /\ [][Next]_vars

\* The builds in which the tool exists and every invocation of it exits 0.
InitSucceeding == Init /\ toolExists

NextSucceeding ==
    \/ \E n \in NameSet, fp \in Fingerprints : EditInput(n, fp)
    \/ \E n \in NameSet : RemoveInput(n)
    \/ \E n \in NameSet, fp \in Fingerprints : SetInputFile(n, fp)
    \/ BeginExecute
    \/ \E f \in NameSet : MaterialOutOfDate(f, 0)
    \/ \E f \in NameSet : MeshOutOfDate(f, 0)
    \/ \E f \in NameSet : IblExtract(f, 0)
    \/ \E f \in NameSet : IblBlur(f, 0)
    \/ \E f \in NameSet : Removed(f)
    \/ EndExecute

SpecSucceeding == InitSucceeding /\ [][NextSucceeding]_vars

\* ------------------------------------------------------------ properties

\* Positions in the log of the run where event e was recorded for file f.
At(e, f) == {i \in 1..Len(log) : log[i].ev = e /\ log[i].file = f}

Execs(f) == At("exec", f)

Maps(f) == At("map", f)

AnyExec == \E i \in 1..Len(log) : log[i].ev = "exec"

\* A run of the task is in progress or its report is at hand.
InRun == outcome \in {"running", "success", "failed"}

\* A run of the task has ended and its report is at hand.
RunOver == pc = "idle" /\ outcome \in {"success", "failed"}

\* The inputs of the run whose fingerprint is the one of the snapshot the run
\* started from, those whose fingerprint differs from it (or is new), and the
\* files of that snapshot that are gone.
Unchanged == {f \in Present(runInputs) : prevSnapshot[f] = runInputs[f]}

Changed == {f \in Present(runInputs) : prevSnapshot[f] # runInputs[f]}

Gone == Present(prevSnapshot) \ Present(runInputs)

\* The outputs of input f are on disk: the mapped file of a material or a
\* mesh, both sets of artifacts in the directory of an IBL.
OutputOnDisk(f) ==
    IF kind = "ibl"
    THEN <<cmgenDir(f), "x">> \in outDirs /\ <<cmgenDir(f), "blur">> \in outDirs
    ELSE getOutputFile(kind, f) \in outFiles

\* Nothing of the outputs of input f is on disk.
OutputGone(f) ==
    IF kind = "ibl"
    THEN /\ \A a \in {"x", "blur"} : <<cmgenDir(f), a>> \notin outDirs
         /\ getOutputFile(kind, f) \notin outFiles
    ELSE getOutputFile(kind, f) \notin outFiles

\* C1: in an incremental run, the tool is never invoked for an input whose
\* fingerprint equals the one recorded in the previous snapshot.
C1_UnchangedNeverInvoked ==
    (InRun /\ incremental) => \A f \in Unchanged : Execs(f) = {}

C1_Witness ==
    /\ RunOver
    /\ incremental
    /\ Unchanged # {}
    /\ \E g \in Changed : Execs(g) # {}

\* C2 as stated: for every input whose fingerprint changed since the previous
\* snapshot, in each of the three tasks, the run made exactly one
\* getOutputFile call and at least one tool invocation for it, and the
\* snapshot the run produced holds its new fingerprint.
C2_Original ==
    RunOver =>
        \A f \in Changed :
            /\ Cardinality(Maps(f)) = 1
            /\ Execs(f) # {}
            /\ history
            /\ snapshot[f] = runInputs[f]

\* C3 as stated: for every input of the previous snapshot that is no longer
\* an input, after the run its mapped outputs are not on disk (for the IBL
\* task the directory named after its base name and the artifacts in it),
\* it is absent from the new snapshot, and the tool was not invoked for it.
C3_RemovedOutputsDeleted ==
    RunOver =>
        \A f \in Gone :
            /\ OutputGone(f)
            /\ snapshot[f] = 0
            /\ Execs(f) = {}

\* C4 as stated: in a run without a previous snapshot, every output that was
\* in the output directory and matches the pattern of the task is deleted
\* before the first tool invocation, and the tool is invoked for every
\* current input.
C4_Original ==
    /\ (pc = "running" /\ ~incremental /\ ~AnyExec) =>
           \A p \in outAtStart : MatchesPattern(kind, p) => p \notin outFiles
    /\ (RunOver /\ ~incremental) =>
           \A f \in Present(runInputs) : Execs(f) # {}

\* C5 as stated: a second run with no file changed since the first invokes
\* no tool and ends with the snapshot the first run ended with.
C5_Original ==
    (RunOver /\ repeatOf \in {"success", "failed"}) =>
        /\ ~AnyExec
        /\ snapshot = prevSnapshot

\* C5 amended: when the first run reported success, a second run with no
\* file changed since invokes no tool, reports success, and ends with the
\* snapshot the first run ended with.
C5_Idempotent ==
    (RunOver /\ repeatOf = "success") =>
        /\ ~AnyExec
        /\ outcome = "success"
        /\ history
        /\ snapshot = prevSnapshot

C5_Witness ==
    /\ RunOver
    /\ repeatOf = "success"
    /\ repeatDone # {}
    /\ Present(snapshot) # {}

\* An exec of the run threw: the tool could not be started or exited non-zero.
ExecFailed == \E i \in 1..Len(log) : log[i].ev = "exec" /\ ~log[i].ok

\* The removed inputs of the run for which File.delete() returned false
\* while artifacts of theirs are on disk under the path it was given.
DeleteFailed ==
    {f \in Gone : \E i \in At("delete", f) :
        /\ ~log[i].ok
        /\ \E a \in {"x", "blur"} : <<log[i].path, a>> \in outDirs}

\* The inputs that failed in the run: an exec threw, getOutputFile threw, or
\* the output of the removed input could not be deleted.
FailedInLog ==
    {f \in NameSet :
        \E i \in 1..Len(log) :
            log[i].file = f /\ log[i].ev \in {"exec", "map"} /\ ~log[i].ok}
        \cup DeleteFailed

\* C6 as stated: when the tool fails for one changed input, the run still
\* invokes the tool for every other changed input and still deletes the
\* output of every removed input, and only the failing input is recorded
\* as failed.
C6_Original ==
    (RunOver /\ ExecFailed) =>
        /\ \A g \in Changed : Execs(g) # {}
        /\ \A r \in Gone : At("delete", r) # {}
        /\ failed = FailedInLog

\* C7: a run reports failure exactly when an input failed in it (its tool
\* invocation could not be started or exited non-zero, computing its output
\* path threw, or its output could not be deleted), and when it reports
\* failure the outputs of the inputs it had processed successfully are on
\* disk.
C7_FailureIffInputFailed ==
    RunOver =>
        /\ outcome = "failed" <=> FailedInLog # {}
        /\ outcome = "failed" => \A f \in Done(log) : OutputOnDisk(f)

\* C8 as stated: the inputs that succeeded in a failing run are recorded in
\* the snapshot it leaves; on the next run with no file changed the tool is
\* invoked for the input that failed and not for those that succeeded.
C8_Original ==
    /\ (RunOver /\ outcome = "failed") =>
           \A g \in Done(log) : history /\ snapshot[g] = runInputs[g]
    /\ (RunOver /\ repeatOf = "failed") =>
           /\ \A f \in repeatFailed \cap Present(runInputs) : Execs(f) # {}
           /\ \A g \in repeatDone : Execs(g) = {}

\* C10: when the executable the task selected for the current OS does not
\* exist, the run fails before any input is processed: it does not report
\* success, no header is logged, no tool invocation is attempted, and no
\* file of the output directory is deleted or written.
C10_MissingToolFailsFirst ==
    (~toolExists /\ outcome # "none") =>
        /\ outcome # "success"
        /\ \A i \in 1..Len(log) : log[i].ev \notin {"header", "exec"}
        /\ InRun => outFiles = outAtStart

\* C11: a deletion of a removed input's output that does not succeed is
\* recorded as a failure of that input and makes the run report failure;
\* no failed deletion passes silently.
C11_FailedDeletionReported ==
    RunOver => \A f \in DeleteFailed : f \in failed /\ outcome = "failed"

\* The invocations of the tool for input f that succeeded in the run, and
\* the number of invocations the closure makes for one input.
OkExecs(f) == {i \in Execs(f) : log[i].ok}

ExecsPerInput == IF kind = "ibl" THEN 2 ELSE 1

C12_Original ==
    RunOver => \A f \in Changed :
        \/ Cardinality(OkExecs(f)) = ExecsPerInput
        \/ OkExecs(f) = {} /\ f \in failed

\* C12: at the end of a run, for every changed input either every invocation
\* of the tool for it succeeded, or the run reports failure and the input is
\* the one that failed or one the run did not reach. Nothing is rolled back:
\* when the second invocation of the IBL task fails, the artifacts of the
\* first one are on disk and the input is reported as failed.
C12_NoRollback ==
    RunOver => \A f \in Changed :
        \/ Cardinality(OkExecs(f)) = ExecsPerInput /\ f \notin failed
        \/ /\ outcome = "failed"
           /\ failed = {f}
           /\ Cardinality(OkExecs(f)) < ExecsPerInput
           /\ OkExecs(f) # {} => <<cmgenDir(f), "x">> \in outDirs
        \/ /\ outcome = "failed"
           /\ f \notin failed
           /\ Execs(f) = {}

C12_Witness ==
    /\ RunOver
    /\ kind = "ibl"
    /\ \E f \in Changed :
           /\ f \in failed
           /\ Cardinality(OkExecs(f)) = 1
           /\ <<cmgenDir(f), "x">> \in outDirs
           /\ <<cmgenDir(f), "blur">> \notin outDirs

\* ------------------------------------------------ getOutputFile on its own

\* The file names getOutputFile is called with: every name of at most
\* MaxNameLen characters over NameChars that a file can have.
NameChars == {"a", "b", "."}

MaxNameLen == 3

FileNames ==
    {n \in UNION {[1..l -> NameChars] : l \in 1..MaxNameLen} :
        n \notin {<<".">>, <<".", ".">>}}

\* A task that has been constructed and has not run.
InitIdle ==
    /\ Init
    /\ kind = "material"
    /\ ~isWindows
    /\ bins = {1}

\* One call of the getOutputFile of class k with a file of the given name;
\* the path is kept relative to outputDir.
CallGetOutputFile(k, name) ==
    /\ calls' = <<[mapper |-> k, name |-> name, path |-> getOutputFile(k, name)]>>
    /\ UNCHANGED <<kind, isWindows, bins, buf, sink, written, flushing, inputs,
                   history, snapshot, outFiles, outDirs, runVars>>

NextMapper == \E k \in Kinds, name \in FileNames : CallGetOutputFile(k, name)

SpecMapper == InitIdle /\ [][NextMapper]_vars

\* C13: for a file name with at least one '.', the material mapper returns
\* <base>.filamat, the mesh mapper <base>.filamesh and the IBL mapper <base>,
\* where <base> is the name up to but excluding its last '.'.
C13_MappedPath ==
    \A i \in 1..Len(calls) :
        LET c    == calls[i]
            base == SubSeq(c.name, 1, lastIndexOf(c.name, "."))
        IN  lastIndexOf(c.name, ".") >= 0 =>
                c.path = CASE c.mapper = "material" -> base \o <<".">> \o filamat
                           [] c.mapper = "mesh" -> base \o <<".">> \o filamesh
                           [] c.mapper = "ibl" -> base

\* C14: for a non-empty file name without '.', each of the three mappers
\* returns a path and raises no error, and the three take the whole name as
\* the base: the IBL mapper returns the name, the material and the mesh
\* mapper a path that starts with it.
C14_NoDotNames ==
    \A i \in 1..Len(calls) :
        LET c == calls[i]
        IN  lastIndexOf(c.name, ".") < 0 =>
                /\ c.path # Error
                /\ Len(c.path) >= Len(c.name)
                /\ SubSeq(c.path, 1, Len(c.name)) = c.name
                /\ c.mapper = "ibl" => c.path = c.name

C15_Original ==
    (RunOver /\ kind = "ibl") => \A f \in Changed :
        \E i \in Execs(f) :
            /\ Execs(f) = {i, i + 1}
            /\ log[i].arg = extractArgs
            /\ log[i + 1].arg = blurArgs

\* C15: in a run of the IBL task the invocations of cmgen for one changed
\* input are, in the log of the run, either none (the run has not reached
\* the input), or the extract invocation alone, which failed and ended the
\* processing of the input, or the extract invocation alone, which
\* succeeded, while the closure is at the input and the blurred-variant
\* invocation has not returned, or the extract invocation, which succeeded,
\* directly followed by the blurred-variant invocation; in a run that
\* reports success every changed input has exactly the two, in this order.
C15_ExtractThenBlur ==
    (InRun /\ kind = "ibl") => \A f \in Changed :
        /\ \/ Execs(f) = {}
           \/ \E i \in Execs(f) :
                  /\ Execs(f) = {i}
                  /\ log[i].arg = extractArgs
                  /\ ~log[i].ok
                  /\ f \in failed
           \/ /\ BetweenExecs(f)
              /\ Execs(f) = {Len(log)}
           \/ \E i \in Execs(f) :
                  /\ Execs(f) = {i, i + 1}
                  /\ log[i].arg = extractArgs
                  /\ log[i].ok
                  /\ log[i + 1].arg = blurArgs
        /\ (RunOver /\ outcome = "success") => Cardinality(Execs(f)) = 2

C15_Witness ==
    /\ RunOver
    /\ kind = "ibl"
    /\ outcome = "success"
    /\ \E f \in Changed : \E i \in Execs(f) :
           /\ Execs(f) = {i, i + 1}
           /\ log[i].arg = extractArgs
           /\ log[i + 1].arg = blurArgs

\* ------------------------------------------------ LogOutputStream on its own

\* The level each stream was constructed with.
levelOf(s) == IF s = "out" THEN "LIFECYCLE" ELSE "ERROR"

\* The bytes written to the streams (the codes of 'h' and 'i'), how many
\* bytes are written in all and how many times flush() is called.
Bytes == {104, 105}

MaxBytes == 3

MaxFlushes == 2

\* ByteArrayOutputStream.toString(): the characters the bytes encode.
toString(b) == [i \in 1..Len(b) |-> IF b[i] = 104 THEN "h" ELSE "i"]

\* Faulty variant of reset: the buffer keeps its content.
resetKeeps(b) == b

\* ByteArrayOutputStream.reset(): the buffer is empty afterwards.
reset(b) == <<>>

\* What the stream actions leave alone.
taskVars == <<kind, isWindows, bins, calls, inputs, history, snapshot,
              outFiles, outDirs, runVars>>

\* write(b) on stream s, the synchronized write inherited from
\* ByteArrayOutputStream. flush() holds no lock between its steps, so the
\* class accepts a write whatever the callers inside flush() of s are doing.
StreamWrite(s, b) ==
    /\ Len(written["out"]) + Len(written["err"]) < MaxBytes
    /\ buf' = [buf EXCEPT ![s] = Append(@, b)]
    /\ written' = [written EXCEPT ![s] = Append(@, b)]
    /\ UNCHANGED <<taskVars, sink, flushing>>

\* The calls of flush() that have taken their text and not logged it yet.
FlushesToLog ==
    {st \in Streams \X Threads : flushing[st[1]][st[2]].at = "log"}

\* flush() on stream s by caller t, first step: toString() of the buffer.
\* flush() is not synchronized: the class lets other callers be inside it.
FlushToString(s, t) ==
    /\ flushing[s][t].at = "idle"
    /\ Len(sink) + Cardinality(FlushesToLog) < MaxFlushes
    /\ flushing' = [flushing EXCEPT
                       ![s][t] = [at |-> "log", text |-> toString(buf[s])]]
    /\ UNCHANGED <<taskVars, buf, sink, written>>

\* flush() on stream s by caller t, second step: logger.log(level, text).
FlushLog(s, t) ==
    /\ flushing[s][t].at = "log"
    /\ sink' = Append(sink, [level |-> levelOf(s), text |-> flushing[s][t].text])
    /\ flushing' = [flushing EXCEPT ![s][t].at = "reset"]
    /\ UNCHANGED <<taskVars, buf, written>>

\* flush() on stream s by caller t, last step: reset(), and the return of
\* flush().
FlushReset(s, t) ==
    /\ flushing[s][t].at = "reset"
    /\ buf' = [buf EXCEPT ![s] = reset(@)]
    /\ flushing' = [flushing EXCEPT ![s][t] = NotFlushing]
    /\ UNCHANGED <<taskVars, sink, written>>

\* The class on its own: any caller may call write or flush at any time.
NextStream ==
    \/ \E s \in Streams, b \in Bytes : StreamWrite(s, b)
    \/ \E s \in Streams, t \in Threads : FlushToString(s, t)
    \/ \E s \in Streams, t \in Threads : FlushLog(s, t)
    \/ \E s \in Streams, t \in Threads : FlushReset(s, t)

SpecStream == InitIdle /\ [][NextStream]_vars

\* Every call of flush() on stream s has returned.
Returned(s) == \A t \in Threads : flushing[s][t].at = "idle"

\* The use the tasks make of a stream. The closure creates out and err for
\* one input (lines 88-89), writes the header to out and flushes it (lines
\* 92-93), and only then hands out to project.exec for the standard output
\* of the process and err for its standard error (lines 96-97), and waits
\* for it. A stream has one caller at a time, which makes its calls one
\* after the other: a call of write or flush on s begins when the call
\* before it on s has returned. The callers of the two streams run side by
\* side.
CallerWrite(s, b) ==
    /\ Returned(s)
    /\ StreamWrite(s, b)

CallerFlush(s, t) ==
    /\ Returned(s)
    /\ FlushToString(s, t)

NextExecute ==
    \/ \E s \in Streams, b \in Bytes : CallerWrite(s, b)
    \/ \E s \in Streams, t \in Threads : CallerFlush(s, t)
    \/ \E s \in Streams, t \in Threads : FlushLog(s, t)
    \/ \E s \in Streams, t \in Threads : FlushReset(s, t)

SpecExecuteStreams == InitIdle /\ [][NextExecute]_vars

\* The texts the logger received at one level, in order, as one text.
RECURSIVE LoggedAt(_, _)
LoggedAt(level, entries) ==
    IF entries = <<>> THEN <<>>
    ELSE (IF Head(entries).level = level THEN Head(entries).text ELSE <<>>)
             \o LoggedAt(level, Tail(entries))

\* C16: in the use the tasks make of their streams, for each of the two
\* streams, what the logger received at the level of the stream, in order,
\* followed by what the buffer of the stream holds and no flush has logged
\* yet, is exactly what was written to the stream, in write order: no byte
\* is logged twice, none is lost by a flush, and nothing written to one
\* stream is logged at the level of the other. Inside flush(), between
\* logger.log and reset(), the buffer holds exactly the text that was just
\* logged; once flush() has returned and until the next write the buffer is
\* empty and everything written has been logged.
C16_LoggedOnceAtOwnLevel ==
    /\ \A s \in Streams :
           LET notLogged ==
                   IF \E t \in Threads : flushing[s][t].at = "reset"
                   THEN <<>> ELSE toString(buf[s])
           IN  /\ LoggedAt(levelOf(s), sink) \o notLogged = toString(written[s])
               /\ \A t \in Threads :
                      flushing[s][t].at # "idle" =>
                          flushing[s][t].text = toString(buf[s])
    /\ \A i \in 1..Len(sink) : sink[i].level \in {levelOf(s) : s \in Streams}

\* Both streams were written and flushed, err before out, both calls of
\* flush() have returned, and out was written again since.
C16_Witness ==
    /\ Len(sink) = 2
    /\ sink[1].level = "ERROR" /\ sink[1].text # <<>>
    /\ sink[2].level = "LIFECYCLE" /\ sink[2].text # <<>>
    /\ \A s \in Streams : Returned(s)
    /\ buf["out"] # <<>>
    /\ buf["err"] = <<>>

\* C17: after a run that reports success, with tools that always succeed,
\* every input currently in the input set has its mapped output on disk,
\* also when two inputs map to the same output path and one of them was
\* removed.
C17_InputsHaveOutputs ==
    (RunOver /\ outcome = "success") =>
        \A f \in Present(inputs) : OutputOnDisk(f)

\* C18: after a run that reports success, every output of the task on disk
\* (a file the clean pattern of the task matches, or an artifact directory
\* of the IBL task) is the mapped output of an input currently in the
\* input set.
C18_NoStaleOutput ==
    (RunOver /\ outcome = "success") =>
        /\ \A p \in outFiles :
               MatchesPattern(kind, p) =>
                   \E f \in Present(inputs) : p = getOutputFile(kind, f)
        /\ \A d \in outDirs :
               kind = "ibl" =>
                   \E f \in Present(inputs) :
                       d[1] \in {getOutputFile(kind, f), cmgenDir(f)}

\* The mapped outputs of the inputs in the Delta Result of the run.
DeltaOutputs == {getOutputFile(kind, f) : f \in Changed \cup Gone}

\* C19: in an incremental run, every file and every artifact directory of
\* the output directory that the run created or deleted is the mapped output
\* of a changed or a removed input of the run, and so is every path the
\* tool was told to write; everything else is as it was when the run
\* started.
C19_Frame ==
    (InRun /\ incremental) =>
        /\ \A p \in (outFiles \ outAtStart) \cup (outAtStart \ outFiles) :
               p \in DeltaOutputs
        /\ \A d \in (outDirs \ dirsAtStart) \cup (dirsAtStart \ outDirs) :
               d[1] \in DeltaOutputs
        /\ \A i \in 1..Len(log) :
               (log[i].ev \in {"exec", "delete"} /\ log[i].path # <<>>) =>
                   log[i].path \in DeltaOutputs

====
